---- MODULE Spec2Model ----
(***************************************************************************)
(* Model of the ISO archive server: the manifest cache (CACHED_MANIFEST),  *)
(* its one-time scan, the watchdog FileHandler that keeps it up to date,   *)
(* and the query layer (filter, facet parameters, count, sorted pages).    *)
(*                                                                         *)
(* Strings are sequences of one-character strings, so that lower(),        *)
(* substring tests, the filename regex and string comparison are computed  *)
(* as Python computes them.                                                *)
(***************************************************************************)
EXTENDS Integers, Sequences, FiniteSets, TLC

(***************************************************************************)
(* Strings                                                                 *)
(***************************************************************************)

\* Python's None.  It is a sequence so that it can be compared with strings,
\* and its only element is not a character, so it is no string.
None == <<"None">>

\* The characters the model uses, in code point order.
Ascii ==
    << ",", ".", "/", "0", "1", "2", "3", "4", "5", "6", "7", "8", "9",
       "A", "B", "C", "D", "E", "F", "G", "H", "I", "J", "K", "L", "M",
       "N", "O", "P", "Q", "R", "S", "T", "U", "V", "W", "X", "Y", "Z",
       "_",
       "a", "b", "c", "d", "e", "f", "g", "h", "i", "j", "k", "l", "m",
       "n", "o", "p", "q", "r", "s", "t", "u", "v", "w", "x", "y", "z" >>

Chars == { Ascii[i] : i \in 1..Len(Ascii) }

\* ord(c): position of the character in code point order.
ord_table == [c \in Chars |-> CHOOSE i \in 1..Len(Ascii) : Ascii[i] = c]
ord(c) == ord_table[c]

\* str.lower() on one character: "A".."Z" map to "a".."z".
lower_table ==
    [c \in Chars |->
        IF ord(c) >= ord("A") /\ ord(c) <= ord("Z")
        THEN Ascii[ord(c) - ord("A") + ord("a")]
        ELSE c]
lower_char(c) == lower_table[c]

\* str.lower()
lower(s) == [i \in 1..Len(s) |-> lower_char(s[i])]

\* Python's "a in b" on two strings: a is a contiguous substring of b.
str_in(a, b) ==
    \E i \in 0..(Len(b) - Len(a)) : SubSeq(b, i + 1, i + Len(a)) = a

\* Python's "x in xs" on a list.
list_in(x, xs) == \E i \in 1..Len(xs) : xs[i] = x

\* Python's a < b on two strings: lexicographic by code point.
RECURSIVE str_lt(_, _)
str_lt(a, b) ==
    IF b = <<>> THEN FALSE
    ELSE IF a = <<>> THEN TRUE
    ELSE IF a[1] = b[1] THEN str_lt(Tail(a), Tail(b))
    ELSE ord(a[1]) < ord(b[1])

\* str.split(sep) with a one-character separator.
RECURSIVE split(_, _)
split(s, sep) ==
    IF \A i \in 1..Len(s) : s[i] # sep
    THEN <<s>>
    ELSE LET k == CHOOSE i \in 1..Len(s) :
                      s[i] = sep /\ \A j \in 1..(i - 1) : s[j] # sep
         IN  <<SubSeq(s, 1, k - 1)>> \o split(SubSeq(s, k + 1, Len(s)), sep)

\* "/".join(parts)
RECURSIVE join_path(_)
join_path(parts) ==
    IF parts = <<>> THEN <<>>
    ELSE IF Len(parts) = 1 THEN parts[1]
    ELSE parts[1] \o <<"/">> \o join_path(Tail(parts))

(***************************************************************************)
(* os_types.py                                                             *)
(***************************************************************************)

DisketteSize == { <<"3", ".", "5">>, <<"5", ".", "2", "5">> }

FloppySize ==
    { <<"1", ".", "4", "4", "M", "B">>,
      <<"7", "2", "0", "K", "B">>,
      <<"1", ".", "2", "M", "B">>,
      <<"3", "6", "0", "K", "B">> }

Arch ==
    { <<"a", "l", "p", "h", "a">>,
      <<"a", "r", "m", "6", "4">>,
      <<"a", "r", "m", "6", "4", "e">>,
      <<"a", "r", "m">>,
      <<"a", "r", "m", "v", "7">>,
      <<"m", "i", "p", "s">>,
      <<"m", "i", "p", "s", "6", "4">>,
      <<"x", "8", "6">>,
      <<"a", "m", "d", "6", "4">>,
      <<"p", "p", "c">>,
      <<"p", "p", "c", "6", "4">>,
      <<"p", "p", "c", "6", "4", "l", "e">>,
      <<"m", "6", "8", "k">>,
      <<"s", "p", "a", "r", "c">>,
      <<"i", "a", "6", "4">>,
      <<"h", "p", "p", "a">>,
      <<"s", "3", "9", "0">>,
      <<"s", "3", "9", "0", "x">>,
      <<"r", "i", "s", "c", "v">>,
      <<"r", "i", "s", "c", "v", "6", "4">>,
      <<"l", "o", "o", "n", "g", "a", "r", "c", "h">>,
      <<"l", "o", "o", "n", "g", "a", "r", "c", "h", "6", "4">> }

\* The OS TypedDict: a record with these ten keys.
OS(variant, name, version, disketteSize, floppySize, arch, tags, extension, size, url) ==
    [ variant |-> variant, name |-> name, version |-> version,
      disketteSize |-> disketteSize, floppySize |-> floppySize,
      arch |-> arch, tags |-> tags, extension |-> extension,
      size |-> size, url |-> url ]

(***************************************************************************)
(* The filename pattern (utils.py)                                         *)
(***************************************************************************)

\* First index >= k at which s holds character c; Len(s) + 1 when none.
next_char(s, c, k) ==
    IF \E i \in k..Len(s) : s[i] = c
    THEN CHOOSE i \in k..Len(s) : s[i] = c /\ \A j \in k..(i - 1) : s[j] # c
    ELSE Len(s) + 1

\* Last index of the longest run of [^_.] characters starting at k
\* (k - 1 when the run is empty).
tags_end(s, k) ==
    IF \E i \in k..Len(s) : s[i] \in {"_", "."}
    THEN (CHOOSE i \in k..Len(s) :
              s[i] \in {"_", "."} /\ \A j \in k..(i - 1) : s[j] \notin {"_", "."}) - 1
    ELSE Len(s)

NoMatch == [ matched |-> FALSE ]

\* The tail of the pattern from the arch group on, matched at index start:
\*   (?P<arch>[^_]+(?:,[^_.]+)*) (?:_(?P<tags>[^_.]+(?:,[^_.]+)*))? \.(?P<extension>.+)
\* The regex engine prefers the longest arch and an attempt with tags; it
\* backtracks to the last dot of the arch segment that leaves an extension.
arch_tail(s, start) ==
    LET n  == Len(s)
        e1 == next_char(s, "_", start) - 1
        te == tags_end(s, e1 + 2)
        dots == { d \in (start + 1)..e1 : s[d] = "." /\ d < n }
        d  == CHOOSE x \in dots : \A y \in dots : y <= x
    IN  IF e1 < start THEN NoMatch
        ELSE IF e1 < n /\ te >= e1 + 2 /\ te + 2 <= n /\ s[te + 1] = "."
        THEN [ matched |-> TRUE, arch |-> SubSeq(s, start, e1),
               tags |-> SubSeq(s, e1 + 2, te),
               extension |-> SubSeq(s, te + 2, n) ]
        ELSE IF dots # {}
        THEN [ matched |-> TRUE, arch |-> SubSeq(s, start, d - 1),
               tags |-> None, extension |-> SubSeq(s, d + 1, n) ]
        ELSE NoMatch

\* filename_regex.match(s).groupdict(), or NoMatch when match() is None.
\* An optional group that did not take part is None.
filename_regex(s) ==
    LET n  == Len(s)
        u1 == next_char(s, "_", 1)
        u2 == next_char(s, "_", u1 + 1)
        u3 == next_char(s, "_", u2 + 1)
        u4 == next_char(s, "_", u3 + 1)
        withSizes == arch_tail(s, u4 + 1)
        without   == arch_tail(s, u2 + 1)
        groups(t, disk, floppy) ==
            [ matched |-> TRUE,
              os_name |-> SubSeq(s, 1, u1 - 1),
              version |-> SubSeq(s, u1 + 1, u2 - 1),
              disk_size |-> disk, floppy_size |-> floppy,
              arch |-> t.arch, tags |-> t.tags, extension |-> t.extension ]
    IN  IF u1 < 2 \/ u2 > n \/ u2 = u1 + 1 THEN NoMatch
        ELSE IF u4 <= n /\ u3 > u2 + 1 /\ u4 > u3 + 1 /\ withSizes.matched
        THEN groups(withSizes, SubSeq(s, u2 + 1, u3 - 1),
                    SubSeq(s, u3 + 1, u4 - 1))
        ELSE IF without.matched THEN groups(without, None, None)
        ELSE NoMatch

(***************************************************************************)
(* Configuration and the archive tree                                      *)
(***************************************************************************)

\* getenv("ARCHIVE_PATH") as Path.parts: the archive is /archive.
ARCHIVE_PATH == << <<"/">>, <<"a", "r", "c", "h", "i", "v", "e">> >>

\* getenv("DOWNLOAD_URL", ""): the default.
DOWNLOAD_URL == <<>>

\* get_archive_path()
get_archive_path == ARCHIVE_PATH

DirOs  == <<"o", "s">>
DirDOS == <<"D", "O", "S">>

\* The files that can exist under the archive, as Path.parts, in the order
\* in which archive_path.rglob("*") reports them.
\*   /archive/os/DOS/Dos_6_x86.img    a well-formed name
\*   /archive/os/DOS/Dos_7_x86.img    a well-formed name
\*   /archive/os/DOS/notes.txt        a name the pattern does not match
\*   /archive/Top_1_x86.img           a file directly under the archive
PathA == ARCHIVE_PATH \o
    << DirOs, DirDOS,
       <<"D", "o", "s", "_", "6", "_", "x", "8", "6", ".", "i", "m", "g">> >>
PathB == ARCHIVE_PATH \o
    << DirOs, DirDOS,
       <<"D", "o", "s", "_", "7", "_", "x", "8", "6", ".", "i", "m", "g">> >>
PathN == ARCHIVE_PATH \o
    << DirOs, DirDOS, <<"n", "o", "t", "e", "s", ".", "t", "x", "t">> >>
PathT == ARCHIVE_PATH \o
    << <<"T", "o", "p", "_", "1", "_", "x", "8", "6", ".", "i", "m", "g">> >>

rglob == << PathA, PathB, PathN, PathT >>

Paths == { rglob[i] : i \in 1..Len(rglob) }

\* Bounds of the exploration.
MaxSize    == 2     \* file sizes are 1..MaxSize bytes
MaxOps     == 3     \* requests and file system operations in a run
NumThreads == 2     \* request handler threads of the server's thread pool

Sizes == 1..MaxSize

(***************************************************************************)
(* get_os_manifest_from_path (utils.py)                                    *)
(***************************************************************************)

\* Outcomes of a call: a record (kind "OS"), None, or an exception that the
\* function does not catch.
Outcome(kind, os) == [ kind |-> kind, os |-> os ]

\* path.relative_to(root): the parts after root, or ValueError.
is_relative_to(path, root) ==
    Len(path) >= Len(root) /\ SubSeq(path, 1, Len(root)) = root
relative_to(path, root) == SubSeq(path, Len(root) + 1, Len(path))

\* raises_ValueError for enums that take any token and raise nothing.
raises_ValueError_never(groups, path) == FALSE

\* [Arch(arch) for arch in groups["arch"].split(",")] raises ValueError
\* when a piece is not an Arch value; likewise DisketteSize(), FloppySize().
raises_ValueError(groups, path) ==
    \/ groups.disk_size # None /\ groups.disk_size # <<>>
          /\ groups.disk_size \notin DisketteSize
    \/ groups.floppy_size # None /\ groups.floppy_size # <<>>
          /\ groups.floppy_size \notin FloppySize
    \/ \E i \in 1..Len(split(groups.arch, ",")) :
          split(groups.arch, ",")[i] \notin Arch
    \/ ~is_relative_to(path, get_archive_path)

\* files is the file system: a function from the existing files to their
\* sizes.  path.parts[3] raises IndexError on a short path and stat() raises
\* FileNotFoundError on a missing file; only ValueError is caught.
get_os_manifest_from_path(path, new_path, files) ==
    LET groups == filename_regex(path[Len(path)])
        stat_path == IF new_path = None THEN path ELSE new_path
    IN  IF Len(path) < 4 THEN Outcome("IndexError", None)
        ELSE IF ~groups.matched THEN Outcome("None", None)
        ELSE IF raises_ValueError(groups, path) THEN Outcome("None", None)
        ELSE IF stat_path \notin DOMAIN files
        THEN Outcome("FileNotFoundError", None)
        ELSE Outcome("OS",
               OS(path[4],
                  groups.os_name,
                  groups.version,
                  IF groups.disk_size # None /\ groups.disk_size # <<>>
                      THEN groups.disk_size ELSE None,
                  IF groups.floppy_size # None /\ groups.floppy_size # <<>>
                      THEN groups.floppy_size ELSE None,
                  split(groups.arch, ","),
                  IF groups.tags # None /\ groups.tags # <<>>
                      THEN split(groups.tags, ",") ELSE <<>>,
                  groups.extension,
                  files[stat_path],
                  DOWNLOAD_URL \o <<"/">>
                      \o join_path(relative_to(path, get_archive_path))))

\* "if result:" -- a record is truthy, None is not.
truthy(outcome) == outcome.kind = "OS"
raised(outcome) == outcome.kind \in {"IndexError", "FileNotFoundError"}

(***************************************************************************)
(* State                                                                   *)
(***************************************************************************)

VARIABLES
    files,            \* the archive: existing file |-> size
    CACHED_MANIFEST,  \* utils.CACHED_MANIFEST, a list of OS records
    IS_INITIALIZED,   \* utils.IS_INITIALIZED
    OBSERVER,         \* utils.OBSERVER: handlers scheduled, thread state
    event_queue,      \* events the observer has not dispatched yet
    handler,          \* the dispatch in progress: handler number and step
    pc,               \* per request thread: where it stands
    walk,             \* per request thread: index into rglob of its scan
    it,               \* per request thread: index of its list iterator
    seen,             \* per request thread: records its generator yielded
    walks,            \* number of directory walks begun
    ops,              \* number of requests and file system operations
    request,          \* the endpoint call under study and its arguments
    filtered_manifests, \* what get_filtered_os_manifests yielded in it
    response          \* what the endpoint returned

server_vars ==
    << files, CACHED_MANIFEST, IS_INITIALIZED, OBSERVER, event_queue,
       handler, pc, walk, it, seen, walks, ops >>

query_vars == << request, filtered_manifests, response >>

vars == << server_vars, query_vars >>

\* No endpoint call is under study.
NoRequest == [ endpoint |-> "none" ]
NoResponse == [ status |-> "none" ]

Threads == 1..NumThreads

Event(type, src_path, dest_path) ==
    [ type |-> type, src_path |-> src_path, dest_path |-> dest_path ]

\* The archives the server is started on, every file one byte long.
InitialArchives ==
    { (PathA :> 1) @@ (PathN :> 1),
      (PathA :> 1) @@ (PathB :> 1) }

Init ==
    /\ files \in InitialArchives
    /\ CACHED_MANIFEST = <<>>
    /\ IS_INITIALIZED = FALSE
    /\ OBSERVER = [ handlers |-> 0, state |-> "new" ]
    /\ event_queue = <<>>
    /\ handler = [ n |-> 1, step |-> "dispatch" ]
    /\ pc = [t \in Threads |-> "idle"]
    /\ walk = [t \in Threads |-> 0]
    /\ it = [t \in Threads |-> 0]
    /\ seen = [t \in Threads |-> <<>>]
    /\ walks = 0
    /\ ops = 0
    /\ request = NoRequest
    /\ filtered_manifests = <<>>
    /\ response = NoResponse

(***************************************************************************)
(* The file system and the events watchdog emits for it                    *)
(***************************************************************************)

\* A started observer queues one event per change under the archive.
emit(e) ==
    event_queue' = IF OBSERVER.state = "new" THEN event_queue
                   ELSE Append(event_queue, e)

Without(f, p) == [q \in (DOMAIN f) \ {p} |-> f[q]]

CreateFile(p, size) ==
    /\ ops < MaxOps
    /\ p \notin DOMAIN files
    /\ files' = (p :> size) @@ files
    /\ emit(Event("created", p, None))
    /\ ops' = ops + 1
    /\ UNCHANGED << CACHED_MANIFEST, IS_INITIALIZED, OBSERVER, handler, pc,
                    walk, it, seen, walks >>
    /\ UNCHANGED query_vars

DeleteFile(p) ==
    /\ ops < MaxOps
    /\ p \in DOMAIN files
    /\ files' = Without(files, p)
    /\ emit(Event("deleted", p, None))
    /\ ops' = ops + 1
    /\ UNCHANGED << CACHED_MANIFEST, IS_INITIALIZED, OBSERVER, handler, pc,
                    walk, it, seen, walks >>
    /\ UNCHANGED query_vars

\* rename(p, q); a file already at q is replaced.
MoveFile(p, q) ==
    /\ ops < MaxOps
    /\ p \in DOMAIN files
    /\ p # q
    /\ files' = (q :> files[p]) @@ Without(files, p)
    /\ emit(Event("moved", p, q))
    /\ ops' = ops + 1
    /\ UNCHANGED << CACHED_MANIFEST, IS_INITIALIZED, OBSERVER, handler, pc,
                    walk, it, seen, walks >>
    /\ UNCHANGED query_vars

\* A write that changes the size of the file.
WriteFile(p, size) ==
    /\ ops < MaxOps
    /\ p \in DOMAIN files
    /\ files[p] # size
    /\ files' = [files EXCEPT ![p] = size]
    /\ emit(Event("modified", p, None))
    /\ ops' = ops + 1
    /\ UNCHANGED << CACHED_MANIFEST, IS_INITIALIZED, OBSERVER, handler, pc,
                    walk, it, seen, walks >>
    /\ UNCHANGED query_vars

(***************************************************************************)
(* FileHandler (utils.py)                                                  *)
(***************************************************************************)

RemoveAt(list, i) == SubSeq(list, 1, i - 1) \o SubSeq(list, i + 1, Len(list))

\* The loop of on_deleted and on_moved,
\*     for i, os in enumerate(CACHED_MANIFEST):
\*         if os == result: del CACHED_MANIFEST[i]
\* from iterator position i (0-based): after a del the iterator still moves
\* on to position i + 1 of the shortened list.
RECURSIVE remove_loop(_, _, _)
remove_loop(list, result, i) ==
    IF i >= Len(list) THEN list
    ELSE IF list[i + 1] = result
         THEN remove_loop(RemoveAt(list, i + 1), result, i + 1)
         ELSE remove_loop(list, result, i + 1)

\* The event being dispatched.
event == Head(event_queue)

Dispatching(type, step) ==
    /\ OBSERVER.state = "running"
    /\ event_queue # <<>>
    /\ event.type = type
    /\ handler.step = step

\* The handler returned: the event goes to the next scheduled handler, and
\* after the last one it leaves the queue.
Returned ==
    /\ IF handler.n < OBSERVER.handlers
       THEN /\ handler' = [ n |-> handler.n + 1, step |-> "dispatch" ]
            /\ event_queue' = event_queue
       ELSE /\ handler' = [ n |-> 1, step |-> "dispatch" ]
            /\ event_queue' = Tail(event_queue)
    /\ OBSERVER' = OBSERVER

\* The handler raised.  The exception leaves the FileHandler and reaches
\* watchdog's dispatching thread, which is not part of this repository:
\* either that thread ends, or it drops the event and goes on.
Raised ==
    /\ handler' = [ n |-> 1, step |-> "dispatch" ]
    /\ event_queue' = Tail(event_queue)
    /\ \E s \in {"dead", "running"} : OBSERVER' = [OBSERVER EXCEPT !.state = s]

on_created ==
    /\ Dispatching("created", "dispatch")
    /\ LET result == get_os_manifest_from_path(event.src_path, None, files)
       IN  IF raised(result)
           THEN Raised /\ UNCHANGED CACHED_MANIFEST
           ELSE /\ Returned
                /\ CACHED_MANIFEST' =
                       IF truthy(result)
                       THEN Append(CACHED_MANIFEST, result.os)
                       ELSE CACHED_MANIFEST
    /\ UNCHANGED << files, IS_INITIALIZED, pc, walk, it, seen, walks, ops >>
    /\ UNCHANGED query_vars

on_deleted ==
    /\ Dispatching("deleted", "dispatch")
    /\ LET result == get_os_manifest_from_path(event.src_path, None, files)
       IN  IF raised(result)
           THEN Raised /\ UNCHANGED CACHED_MANIFEST
           ELSE /\ Returned
                /\ CACHED_MANIFEST' =
                       IF truthy(result)
                       THEN remove_loop(CACHED_MANIFEST, result.os, 0)
                       ELSE CACHED_MANIFEST
    /\ UNCHANGED << files, IS_INITIALIZED, pc, walk, it, seen, walks, ops >>
    /\ UNCHANGED query_vars

\* The first half of on_moved without the append of the new record.
on_moved_dest_without_append ==
    /\ Dispatching("moved", "dispatch")
    /\ LET result == get_os_manifest_from_path(event.dest_path, None, files)
       IN  IF raised(result)
           THEN Raised /\ UNCHANGED CACHED_MANIFEST
           ELSE /\ handler' = [handler EXCEPT !.step = "moved_src"]
                /\ UNCHANGED << event_queue, OBSERVER, CACHED_MANIFEST >>
    /\ UNCHANGED << files, IS_INITIALIZED, pc, walk, it, seen, walks, ops >>
    /\ UNCHANGED query_vars

\* on_moved, first half: the record of dest_path is appended.
on_moved_dest ==
    /\ Dispatching("moved", "dispatch")
    /\ LET result == get_os_manifest_from_path(event.dest_path, None, files)
       IN  IF raised(result)
           THEN Raised /\ UNCHANGED CACHED_MANIFEST
           ELSE /\ handler' = [handler EXCEPT !.step = "moved_src"]
                /\ UNCHANGED << event_queue, OBSERVER >>
                /\ CACHED_MANIFEST' =
                       IF truthy(result)
                       THEN Append(CACHED_MANIFEST, result.os)
                       ELSE CACHED_MANIFEST
    /\ UNCHANGED << files, IS_INITIALIZED, pc, walk, it, seen, walks, ops >>
    /\ UNCHANGED query_vars

\* on_moved, second half: the record of src_path, with the size of the file
\* at dest_path, is removed.
on_moved_src ==
    /\ Dispatching("moved", "moved_src")
    /\ LET result == get_os_manifest_from_path(event.src_path,
                                               event.dest_path, files)
       IN  IF raised(result)
           THEN Raised /\ UNCHANGED CACHED_MANIFEST
           ELSE /\ Returned
                /\ CACHED_MANIFEST' =
                       IF truthy(result)
                       THEN remove_loop(CACHED_MANIFEST, result.os, 0)
                       ELSE CACHED_MANIFEST
    /\ UNCHANGED << files, IS_INITIALIZED, pc, walk, it, seen, walks, ops >>
    /\ UNCHANGED query_vars

\* FileHandler does not override on_modified: the event changes nothing.
on_modified ==
    /\ Dispatching("modified", "dispatch")
    /\ Returned
    /\ UNCHANGED << files, CACHED_MANIFEST, IS_INITIALIZED, pc, walk, it,
                    seen, walks, ops >>
    /\ UNCHANGED query_vars

(***************************************************************************)
(* generate_os_manifests and get_all_os_manifests (utils.py)               *)
(***************************************************************************)

\* A request arrives (get_os, get_os_count or get_os_params): the endpoint
\* starts consuming get_all_os_manifests(), whose first statement reads
\* IS_INITIALIZED.
Request(t) ==
    /\ pc[t] = "idle"
    /\ ops < MaxOps
    /\ ops' = ops + 1
    /\ pc' = [pc EXCEPT ![t] = IF IS_INITIALIZED THEN "iterate" ELSE "generate"]
    /\ it' = [it EXCEPT ![t] = 0]
    /\ seen' = [seen EXCEPT ![t] = <<>>]
    /\ UNCHANGED << files, CACHED_MANIFEST, IS_INITIALIZED, OBSERVER,
                    event_queue, handler, walk, walks >>
    /\ UNCHANGED query_vars

\* generate_os_manifests: "if not IS_INITIALIZED:".
generate_check(t) ==
    /\ pc[t] = "generate"
    /\ pc' = [pc EXCEPT ![t] = IF IS_INITIALIZED THEN "iterate" ELSE "set_flag"]
    /\ UNCHANGED << files, CACHED_MANIFEST, IS_INITIALIZED, OBSERVER,
                    event_queue, handler, walk, it, seen, walks, ops >>
    /\ UNCHANGED query_vars

\* "IS_INITIALIZED = True", then the walk begins.
generate_set_flag(t) ==
    /\ pc[t] = "set_flag"
    /\ IS_INITIALIZED' = TRUE
    /\ pc' = [pc EXCEPT ![t] = "walk"]
    /\ walk' = [walk EXCEPT ![t] = 1]
    /\ walks' = walks + 1
    /\ UNCHANGED << files, CACHED_MANIFEST, OBSERVER, event_queue, handler,
                    it, seen, ops >>
    /\ UNCHANGED query_vars

\* "for path in archive_path.rglob("*"): if path.is_file():"
generate_walk(t) ==
    /\ pc[t] = "walk"
    /\ IF walk[t] > Len(rglob)
       THEN /\ pc' = [pc EXCEPT ![t] = "observer"]
            /\ walk' = walk
       ELSE IF rglob[walk[t]] \in DOMAIN files
       THEN /\ pc' = [pc EXCEPT ![t] = "parse"]
            /\ walk' = walk
       ELSE /\ pc' = pc
            /\ walk' = [walk EXCEPT ![t] = walk[t] + 1]
    /\ UNCHANGED << files, CACHED_MANIFEST, IS_INITIALIZED, OBSERVER,
                    event_queue, handler, it, seen, walks, ops >>
    /\ UNCHANGED query_vars

\* "result = get_os_manifest_from_path(path); if result: append".  An
\* exception leaves generate_os_manifests and fails the request.
generate_parse(t) ==
    /\ pc[t] = "parse"
    /\ LET result == get_os_manifest_from_path(rglob[walk[t]], None, files)
       IN  IF raised(result)
           THEN /\ pc' = [pc EXCEPT ![t] = "error"]
                /\ UNCHANGED << CACHED_MANIFEST, walk >>
           ELSE /\ pc' = [pc EXCEPT ![t] = "walk"]
                /\ walk' = [walk EXCEPT ![t] = walk[t] + 1]
                /\ CACHED_MANIFEST' =
                       IF truthy(result)
                       THEN Append(CACHED_MANIFEST, result.os)
                       ELSE CACHED_MANIFEST
    /\ UNCHANGED << files, IS_INITIALIZED, OBSERVER, event_queue, handler,
                    it, seen, walks, ops >>
    /\ UNCHANGED query_vars

\* "OBSERVER.schedule(FileHandler(), ...); OBSERVER.start()".  start() on a
\* thread that was started before raises RuntimeError.
generate_observer(t) ==
    /\ pc[t] = "observer"
    /\ IF OBSERVER.state = "new"
       THEN /\ OBSERVER' = [ handlers |-> OBSERVER.handlers + 1,
                             state |-> "running" ]
            /\ pc' = [pc EXCEPT ![t] = "iterate"]
       ELSE /\ OBSERVER' = [OBSERVER EXCEPT !.handlers = @ + 1]
            /\ pc' = [pc EXCEPT ![t] = "error"]
    /\ UNCHANGED << files, CACHED_MANIFEST, IS_INITIALIZED, event_queue,
                    handler, walk, it, seen, walks, ops >>
    /\ UNCHANGED query_vars

\* "for m in CACHED_MANIFEST: yield m": one step of the list iterator.
iterate(t) ==
    /\ pc[t] = "iterate"
    /\ IF it[t] < Len(CACHED_MANIFEST)
       THEN /\ seen' = [seen EXCEPT ![t] = Append(@, CACHED_MANIFEST[it[t] + 1])]
            /\ it' = [it EXCEPT ![t] = it[t] + 1]
            /\ pc' = pc
       ELSE /\ pc' = [pc EXCEPT ![t] = "done"]
            /\ UNCHANGED << it, seen >>
    /\ UNCHANGED << files, CACHED_MANIFEST, IS_INITIALIZED, OBSERVER,
                    event_queue, handler, walk, walks, ops >>
    /\ UNCHANGED query_vars

\* The response (or the error) has been sent; the thread is free again.
Respond(t) ==
    /\ pc[t] \in {"done", "error"}
    /\ pc' = [pc EXCEPT ![t] = "idle"]
    /\ walk' = [walk EXCEPT ![t] = 0]
    /\ it' = [it EXCEPT ![t] = 0]
    /\ seen' = [seen EXCEPT ![t] = <<>>]
    /\ UNCHANGED << files, CACHED_MANIFEST, IS_INITIALIZED, OBSERVER,
                    event_queue, handler, walks, ops >>
    /\ UNCHANGED query_vars

Next ==
    \/ \E p \in Paths, size \in Sizes : CreateFile(p, size)
    \/ \E p \in Paths : DeleteFile(p)
    \/ \E p, q \in Paths : MoveFile(p, q)
    \/ \E p \in Paths, size \in Sizes : WriteFile(p, size)
    \/ on_created
    \/ on_deleted
    \/ on_moved_dest
    \/ on_moved_src
    \/ on_modified
    \/ \E t \in Threads : Request(t)
    \/ \E t \in Threads : generate_check(t)
    \/ \E t \in Threads : generate_set_flag(t)
    \/ \E t \in Threads : generate_walk(t)
    \/ \E t \in Threads : generate_parse(t)
    \/ \E t \in Threads : generate_observer(t)
    \/ \E t \in Threads : iterate(t)
    \/ \E t \in Threads : Respond(t)

Spec == Init /\ [][Next]_vars

\* The server when all requests are served by one worker thread: the scan
\* cannot run twice, the archive and the watcher behave as in Spec.
WorkerNext ==
    \/ \E p \in Paths, size \in Sizes : CreateFile(p, size)
    \/ \E p \in Paths : DeleteFile(p)
    \/ \E p, q \in Paths : MoveFile(p, q)
    \/ \E p \in Paths, size \in Sizes : WriteFile(p, size)
    \/ on_created
    \/ on_deleted
    \/ on_moved_dest
    \/ on_moved_src
    \/ on_modified
    \/ Request(1)
    \/ generate_check(1)
    \/ generate_set_flag(1)
    \/ generate_walk(1)
    \/ generate_parse(1)
    \/ generate_observer(1)
    \/ iterate(1)
    \/ Respond(1)

WorkerSpec == Init /\ [][WorkerNext]_vars

(***************************************************************************)
(* The watcher on files of any name                                        *)
(***************************************************************************)

\* sep.join(parts)
RECURSIVE join(_, _)
join(parts, sep) ==
    IF parts = <<>> THEN <<>>
    ELSE IF Len(parts) = 1 THEN parts[1]
    ELSE parts[1] \o <<sep>> \o join(Tail(parts), sep)

\* Architecture lists of the file names have 1..MaxArchs entries.
MaxArchs == 2

T_Dos   == <<"D", "o", "s">>
T_6     == <<"6">>
T_3_5   == <<"3", ".", "5">>
T_9     == <<"9">>
T_720KB == <<"7", "2", "0", "K", "B">>
T_1GB   == <<"1", "G", "B">>
T_x86   == <<"x", "8", "6">>
T_arm64 == <<"a", "r", "m", "6", "4">>
T_pdp   == <<"p", "d", "p">>
T_boot  == <<"b", "o", "o", "t">>
T_live  == <<"l", "i", "v", "e">>
T_cd    == <<"c", "d">>
T_img   == <<"i", "m", "g">>

\* Tokens inside and outside the vocabularies; an architecture entry may
\* be empty ("x86,").
DiskTokens   == { T_3_5, T_9 }
FloppyTokens == { T_720KB, T_1GB }
ArchTokens   == { T_x86, T_arm64, T_pdp, <<>> }

\* The size tokens of a name: none, or a disk size and a floppy size.
SizeTokens ==
    { <<>> } \cup { <<d, f>> : d \in DiskTokens, f \in FloppyTokens }
ArchLists == UNION { [1..n -> ArchTokens] : n \in 1..MaxArchs }
TagTokens == { <<>>, <<T_boot>>, <<join(<<T_live, T_cd>>, ",")>> }

\* File names Dos_6[_disk_floppy]_archs[_tags].img over these tokens.
Names ==
    { join(<<T_Dos, T_6>> \o sizes \o <<join(archs, ",")>> \o tags, "_")
          \o <<".">> \o T_img :
      sizes \in SizeTokens, archs \in ArchLists, tags \in TagTokens }

NamePaths == { ARCHIVE_PATH \o <<DirOs, DirDOS, name>> : name \in Names } \ { PathA }

\* The server after the scan of an archive that holds Dos_6_x86.img, with
\* one event of the watcher waiting: a file of some name has been created,
\* or Dos_6_x86.img has been renamed to some name.
NameInit ==
    /\ \E p \in NamePaths :
          \/ /\ files = (PathA :> 1) @@ (p :> 1)
             /\ event_queue = << Event("created", p, None) >>
          \/ /\ files = (p :> 1)
             /\ event_queue = << Event("moved", PathA, p) >>
    /\ CACHED_MANIFEST =
           << get_os_manifest_from_path(PathA, None, (PathA :> 1)).os >>
    /\ IS_INITIALIZED = TRUE
    /\ OBSERVER = [ handlers |-> 1, state |-> "running" ]
    /\ handler = [ n |-> 1, step |-> "dispatch" ]
    /\ pc = [t \in Threads |-> "idle"]
    /\ walk = [t \in Threads |-> 0]
    /\ it = [t \in Threads |-> 0]
    /\ seen = [t \in Threads |-> <<>>]
    /\ walks = 1
    /\ ops = 2
    /\ request = NoRequest
    /\ filtered_manifests = <<>>
    /\ response = NoResponse

\* The watcher handles the event.
NameNext ==
    \/ on_created
    \/ on_moved_dest
    \/ on_moved_src

NameSpec == NameInit /\ [][NameNext]_vars

(***************************************************************************)
(* Queries: get_filtered_os_manifests (utils.py)                           *)
(***************************************************************************)

\* An absent allow-list (the parameter is None).  Allow-lists are lists of
\* strings, and no list of strings equals this one.
NoneList == << None >>

\* Python's "not x" for None, an empty list and an empty string.
not_list(x) == x = NoneList \/ x = <<>>
not_str(x)  == x = None \/ x = <<>>

\* The filter arguments of the three endpoints.
Criteria(variants, names, versions, disketteSizes, floppySizes, archs, tags, search) ==
    [ variants |-> variants, names |-> names, versions |-> versions,
      disketteSizes |-> disketteSizes, floppySizes |-> floppySizes,
      archs |-> archs, tags |-> tags, search |-> search ]

\* search_hit without the lower() of the record's fields.
search_hit_case_sensitive(os, search) ==
    \/ str_in(lower(search), os.variant)
    \/ str_in(lower(search), os.name)
    \/ str_in(lower(search), os.version)
    \/ os.disketteSize # None /\ str_in(lower(search), os.disketteSize)
    \/ os.floppySize # None /\ str_in(lower(search), os.floppySize)
    \/ \E i \in 1..Len(os.arch) : str_in(lower(search), os.arch[i])
    \/ \E i \in 1..Len(os.tags) : str_in(lower(search), os.tags[i])

\* "search.lower() in <field>.lower()" over the searched fields.
search_hit(os, search) ==
    \/ str_in(lower(search), lower(os.variant))
    \/ str_in(lower(search), lower(os.name))
    \/ str_in(lower(search), lower(os.version))
    \/ os.disketteSize # None
          /\ str_in(lower(search), lower(os.disketteSize))
    \/ os.floppySize # None
          /\ str_in(lower(search), lower(os.floppySize))
    \/ \E i \in 1..Len(os.arch) : str_in(lower(search), lower(os.arch[i]))
    \/ \E i \in 1..Len(os.tags) : str_in(lower(search), lower(os.tags[i]))

\* The condition under which get_filtered_os_manifests yields os.
filter_condition(os, c) ==
    /\ not_list(c.variants) \/ list_in(os.variant, c.variants)
    /\ not_list(c.names) \/ list_in(os.name, c.names)
    /\ not_list(c.versions) \/ list_in(os.version, c.versions)
    /\ \/ not_list(c.disketteSizes)
       \/ os.disketteSize # None /\ list_in(os.disketteSize, c.disketteSizes)
    /\ \/ not_list(c.floppySizes)
       \/ os.floppySize # None /\ list_in(os.floppySize, c.floppySizes)
    /\ \/ not_list(c.archs)
       \/ \E i \in 1..Len(os.arch) : list_in(os.arch[i], c.archs)
    /\ \/ not_list(c.tags)
       \/ \E i \in 1..Len(c.tags) : list_in(c.tags[i], os.tags)
    /\ not_str(c.search) \/ search_hit(os, c.search)

\* get_filtered_os_manifests losing the first record that passes.
get_filtered_os_manifests_less_first(all, c) ==
    LET passed == SelectSeq(all, LAMBDA os : filter_condition(os, c))
    IN  IF passed = <<>> THEN <<>> ELSE Tail(passed)

\* get_filtered_os_manifests over the records that get_all_os_manifests
\* yields.
get_filtered_os_manifests(all, c) ==
    SelectSeq(all, LAMBDA os : filter_condition(os, c))

(***************************************************************************)
(* Queries: get_os_params (main.py)                                        *)
(***************************************************************************)

\* unique_everseen letting every item through, seen before or not.
unique_everseen_all(items) == items

\* more_itertools.unique_everseen: the items in order of first occurrence.
RECURSIVE unique_everseen(_)
unique_everseen(items) ==
    IF items = <<>> THEN <<>>
    ELSE LET rest == unique_everseen(SubSeq(items, 1, Len(items) - 1))
             last == items[Len(items)]
         IN  IF list_in(last, rest) THEN rest ELSE Append(rest, last)

\* [tag for os in items for tag in os["tags"]]
RECURSIVE all_tags(_)
all_tags(items) ==
    IF items = <<>> THEN <<>> ELSE items[1].tags \o all_tags(Tail(items))

\* os_manifests is one generator object shared by the seven generator
\* expressions.  list(...) of an expression takes every item the generator
\* still has and leaves it exhausted.
drain(os_manifests) == [ items |-> os_manifests, rest |-> <<>> ]

\* "os[...] in <allow-list>" of get_os_params.  A DisketteSize or FloppySize
\* member equals its string, None equals no string, and os["arch"], a list,
\* equals no string either.
variant_ok(os, c) == not_list(c.variants) \/ list_in(os.variant, c.variants)
name_ok(os, c)    == not_list(c.names) \/ list_in(os.name, c.names)
version_ok(os, c) == not_list(c.versions) \/ list_in(os.version, c.versions)
disketteSize_ok(os, c) ==
    \/ not_list(c.disketteSizes)
    \/ os.disketteSize # None /\ list_in(os.disketteSize, c.disketteSizes)
floppySize_ok(os, c) ==
    \/ not_list(c.floppySizes)
    \/ os.floppySize # None /\ list_in(os.floppySize, c.floppySizes)
arch_ok(os, c) == not_list(c.archs)
tag_ok(tag, c) == not_list(c.tags) \/ list_in(tag, c.tags)

\* variants_condition with the facet's own allow-list applied, as the other
\* six expressions apply theirs.
variants_condition_own(os, c) == variant_ok(os, c)

\* The conditions of the seven generator expressions, main.py lines 41-93.
variants_condition(os, c) == TRUE
names_condition(os, c) == variant_ok(os, c) /\ name_ok(os, c)
versions_condition(os, c) == names_condition(os, c) /\ version_ok(os, c)
disketteSizes_condition(os, c) ==
    versions_condition(os, c) /\ disketteSize_ok(os, c)
floppySizes_condition(os, c) ==
    disketteSizes_condition(os, c) /\ floppySize_ok(os, c)
archs_condition(os, c) == floppySizes_condition(os, c) /\ arch_ok(os, c)
tags_condition(os, c) == archs_condition(os, c)

OSParams(variants, names, versions, disketteSizes, floppySizes, archs, tags) ==
    [ variants |-> variants, names |-> names, versions |-> versions,
      disketteSizes |-> disketteSizes, floppySizes |-> floppySizes,
      archs |-> archs, tags |-> tags ]

\* get_os_params: the lists are built in the order of the return statement,
\* each from what the shared generator still holds.
get_os_params(all, c) ==
    LET g1 == drain(all)
        g2 == drain(g1.rest)
        g3 == drain(g2.rest)
        g4 == drain(g3.rest)
        g5 == drain(g4.rest)
        g6 == drain(g5.rest)
        g7 == drain(g6.rest)
        s1 == SelectSeq(g1.items, LAMBDA os : variants_condition(os, c))
        s2 == SelectSeq(g2.items, LAMBDA os : names_condition(os, c))
        s3 == SelectSeq(g3.items, LAMBDA os : versions_condition(os, c))
        s4 == SelectSeq(g4.items, LAMBDA os : disketteSizes_condition(os, c))
        s5 == SelectSeq(g5.items, LAMBDA os : floppySizes_condition(os, c))
        s6 == SelectSeq(g6.items, LAMBDA os : archs_condition(os, c))
        variants_result ==
            unique_everseen([i \in 1..Len(s1) |-> s1[i].variant])
        names_result ==
            unique_everseen([i \in 1..Len(s2) |-> s2[i].name])
        versions_result ==
            unique_everseen([i \in 1..Len(s3) |-> s3[i].version])
        disketteSizes_result ==
            unique_everseen([i \in 1..Len(s4) |-> s4[i].disketteSize])
        floppySizes_result ==
            unique_everseen([i \in 1..Len(s5) |-> s5[i].floppySize])
        archs_result ==
            unique_everseen([i \in 1..Len(s6) |-> s6[i].arch])
        tags_result == unique_everseen(
            SelectSeq(
                all_tags(SelectSeq(g7.items,
                                   LAMBDA os : tags_condition(os, c))),
                LAMBDA tag : tag_ok(tag, c)))
    IN  OSParams(variants_result, names_result, versions_result,
                 SelectSeq(disketteSizes_result, LAMBDA size : size # None),
                 SelectSeq(floppySizes_result, LAMBDA size : size # None),
                 archs_result, tags_result)

(***************************************************************************)
(* Queries: get_os_count and get_os (main.py)                              *)
(***************************************************************************)

\* The result of an endpoint: a value, or the exception it raised.
Response(status, body) == [ status |-> status, body |-> body ]

\* more_itertools.ilen
ilen(items) == Len(items)

get_os_count(all, c) == Response("ok", ilen(get_filtered_os_manifests(all, c)))

\* The keys of the OS dict.
K_variant      == <<"v", "a", "r", "i", "a", "n", "t">>
K_name         == <<"n", "a", "m", "e">>
K_version      == <<"v", "e", "r", "s", "i", "o", "n">>
K_disketteSize == <<"d", "i", "s", "k", "e", "t", "t", "e", "S", "i", "z", "e">>
K_floppySize   == <<"f", "l", "o", "p", "p", "y", "S", "i", "z", "e">>
K_arch         == <<"a", "r", "c", "h">>
K_tags         == <<"t", "a", "g", "s">>
K_extension    == <<"e", "x", "t", "e", "n", "s", "i", "o", "n">>
K_size         == <<"s", "i", "z", "e">>
K_url          == <<"u", "r", "l">>

StrKeys  == { K_variant, K_name, K_version, K_extension, K_url }
EnumKeys == { K_disketteSize, K_floppySize }
ListKeys == { K_arch, K_tags }
OSKeys   == StrKeys \cup EnumKeys \cup ListKeys \cup { K_size }

\* os.get(sort_key, "")
os_get(os, sort_key) ==
    IF sort_key = K_variant THEN os.variant
    ELSE IF sort_key = K_name THEN os.name
    ELSE IF sort_key = K_version THEN os.version
    ELSE IF sort_key = K_disketteSize THEN os.disketteSize
    ELSE IF sort_key = K_floppySize THEN os.floppySize
    ELSE IF sort_key = K_arch THEN os.arch
    ELSE IF sort_key = K_tags THEN os.tags
    ELSE IF sort_key = K_extension THEN os.extension
    ELSE IF sort_key = K_size THEN os.size
    ELSE IF sort_key = K_url THEN os.url
    ELSE <<>>

\* Python's a < b on two lists of strings.
RECURSIVE list_lt(_, _)
list_lt(a, b) ==
    IF b = <<>> THEN FALSE
    ELSE IF a = <<>> THEN TRUE
    ELSE IF a[1] = b[1] THEN list_lt(Tail(a), Tail(b))
    ELSE str_lt(a[1], b[1])

\* Python's x < y on two values of os.get(sort_key, ""), neither None.
key_lt(x, y, sort_key) ==
    IF sort_key \in ListKeys THEN list_lt(x, y)
    ELSE IF sort_key = K_size THEN x < y
    ELSE str_lt(x, y)

\* x goes before y in the sorted list.
goes_before(x, y, sort_key, reverse) ==
    IF reverse THEN key_lt(os_get(y, sort_key), os_get(x, sort_key), sort_key)
    ELSE key_lt(os_get(x, sort_key), os_get(y, sort_key), sort_key)

\* Insert x behind every item it does not go before: the sort is stable.
RECURSIVE insert(_, _, _, _)
insert(sorted_items, x, sort_key, reverse) ==
    IF sorted_items = <<>> THEN <<x>>
    ELSE LET last == sorted_items[Len(sorted_items)]
         IN  IF goes_before(x, last, sort_key, reverse)
             THEN Append(insert(SubSeq(sorted_items, 1, Len(sorted_items) - 1),
                                x, sort_key, reverse), last)
             ELSE Append(sorted_items, x)

\* sorted(items, key=lambda os: os.get(sort_key, ""), reverse=reverse)
RECURSIVE sorted(_, _, _)
sorted(items, sort_key, reverse) ==
    IF items = <<>> THEN <<>>
    ELSE insert(sorted(SubSeq(items, 1, Len(items) - 1), sort_key, reverse),
                items[Len(items)], sort_key, reverse)

\* sorted() compares every item with another one when there are two or
\* more, and "<" between None and anything raises TypeError.
sorted_raises(items, sort_key) ==
    /\ Len(items) >= 2
    /\ sort_key \in EnumKeys
    /\ \E i \in 1..Len(items) : os_get(items[i], sort_key) = None

Min(a, b) == IF a <= b THEN a ELSE b

\* list(islice(items, start, stop))
islice(items, start, stop) == SubSeq(items, start + 1, Min(stop, Len(items)))

\* "ascBy or descBy"
sort_key_of(ascBy, descBy) == IF not_str(ascBy) THEN descBy ELSE ascBy

\* get_os
get_os(all, c, ascBy, descBy, size, page) ==
    LET filtered == get_filtered_os_manifests(all, c)
        sort_key == sort_key_of(ascBy, descBy)
        reverse  == ~not_str(descBy)
    IN  IF sort_key # None /\ sorted_raises(filtered, sort_key)
        THEN Response("TypeError", <<>>)
        ELSE Response("ok",
                 islice(IF sort_key # None
                        THEN sorted(filtered, sort_key, reverse)
                        ELSE filtered,
                        size * page, size * (page + 1)))

(***************************************************************************)
(* The endpoints applied to a store                                        *)
(***************************************************************************)

DirLinux == <<"L", "i", "n", "u", "x">>

\* The files whose records fill the store of the query specification:
\*   /archive/os/DOS/Dos_6_x86.img
\*   /archive/os/DOS/Dos_10_3.5_720KB_x86_boot.img
\*   /archive/os/Linux/Ubuntu_9_amd64,arm64_live.iso
PathSized == ARCHIVE_PATH \o
    << DirOs, DirDOS,
       <<"D", "o", "s", "_", "1", "0", "_", "3", ".", "5", "_",
         "7", "2", "0", "K", "B", "_", "x", "8", "6", "_",
         "b", "o", "o", "t", ".", "i", "m", "g">> >>
PathMulti == ARCHIVE_PATH \o
    << DirOs, DirLinux,
       <<"U", "b", "u", "n", "t", "u", "_", "9", "_",
         "a", "m", "d", "6", "4", ",", "a", "r", "m", "6", "4", "_",
         "l", "i", "v", "e", ".", "i", "s", "o">> >>

QueryPaths == { PathA, PathSized, PathMulti }

QueryArchive == [p \in QueryPaths |-> 1]

\* The records the parser makes of these files.
RecordPool ==
    { get_os_manifest_from_path(p, None, QueryArchive).os : p \in QueryPaths }

\* Bounds of the query specification.
MaxStore    == 3    \* records in the store
MaxActive   == 2    \* allow-lists and search strings given in one call
MaxPageSize == 2    \* page sizes 1..MaxPageSize, besides the default
MaxPage     == 2    \* page indexes 0..MaxPage

\* The default of get_os's size parameter.
DefaultSize == 10

\* The stores: lists of records, duplicates included.
Stores == UNION { [1..n -> RecordPool] : n \in 0..MaxStore }

S_DOS   == <<"D", "O", "S">>
S_Dos   == <<"D", "o", "s">>
S_6     == <<"6">>
S_3_5   == <<"3", ".", "5">>
S_720KB == <<"7", "2", "0", "K", "B">>
S_arm64 == <<"a", "r", "m", "6", "4">>
S_boot  == <<"b", "o", "o", "t">>
S_live  == <<"l", "i", "v", "e">>
S_dos   == <<"d", "o", "s">>
S_KB    == <<"K", "B">>
S_color == <<"c", "o", "l", "o", "r">>

Facets == << "variants", "names", "versions", "disketteSizes",
             "floppySizes", "archs", "tags" >>

\* The allow-lists tried for each facet: absent, empty, or given.
AllowLists ==
    [ variants      |-> { NoneList, <<>>, <<S_DOS>> },
      names         |-> { NoneList, <<>>, <<S_Dos>> },
      versions      |-> { NoneList, <<>>, <<S_6>> },
      disketteSizes |-> { NoneList, <<>>, <<S_3_5>> },
      floppySizes   |-> { NoneList, <<>>, <<S_720KB>> },
      archs         |-> { NoneList, <<>>, <<S_arm64>> },
      tags          |-> { NoneList, <<>>, <<S_boot, S_live>> } ]

\* The search strings tried.
Searches == { None, <<>>, S_dos, S_KB, S_live }

\* The number of allow-lists given in c.
active(c) ==
    Cardinality({ i \in 1..Len(Facets) : c[Facets[i]] # NoneList })

\* The number of search strings given in c.
searching(c) == IF c.search = None THEN 0 ELSE 1

\* Criteria with at most MaxActive allow-lists and search strings given.
AllCriteria ==
    { c \in { Criteria(v, n, ve, d, f, a, t, search) :
                  v \in AllowLists.variants, n \in AllowLists.names,
                  ve \in AllowLists.versions, d \in AllowLists.disketteSizes,
                  f \in AllowLists.floppySizes, a \in AllowLists.archs,
                  t \in AllowLists.tags, search \in Searches } :
        active(c) + searching(c) <= MaxActive }

\* get_os_params has no search parameter.
ParamsCriteria == { c \in AllCriteria : c.search = None }

CountCriteria == AllCriteria

NoFilter == Criteria(NoneList, NoneList, NoneList, NoneList, NoneList,
                     NoneList, NoneList, None)

\* The criteria, sort keys and pages tried with get_os.
OsCriteria ==
    { NoFilter,
      [NoFilter EXCEPT !.variants = <<S_DOS>>],
      [NoFilter EXCEPT !.search = S_dos] }

SortKeys == OSKeys \cup { S_color, <<>>, None }

PageSizes == (1..MaxPageSize) \cup { DefaultSize }

QueryInit ==
    /\ files = QueryArchive
    /\ CACHED_MANIFEST \in Stores
    /\ IS_INITIALIZED = TRUE
    /\ OBSERVER = [ handlers |-> 1, state |-> "running" ]
    /\ event_queue = <<>>
    /\ handler = [ n |-> 1, step |-> "dispatch" ]
    /\ pc = [t \in Threads |-> "idle"]
    /\ walk = [t \in Threads |-> 0]
    /\ it = [t \in Threads |-> 0]
    /\ seen = [t \in Threads |-> <<>>]
    /\ walks = 1
    /\ ops = 0
    /\ request = NoRequest
    /\ filtered_manifests = <<>>
    /\ response = NoResponse

Call(endpoint, c, ascBy, descBy, size, page) ==
    [ endpoint |-> endpoint, criteria |-> c, ascBy |-> ascBy,
      descBy |-> descBy, size |-> size, page |-> page ]

\* GET /os/params/
call_get_os_params(c) ==
    /\ request = NoRequest
    /\ request' = Call("get_os_params", c, None, None, 0, 0)
    /\ filtered_manifests' = <<>>
    /\ response' = Response("ok", get_os_params(CACHED_MANIFEST, c))
    /\ UNCHANGED server_vars

\* GET /os/count/
call_get_os_count(c) ==
    /\ request = NoRequest
    /\ request' = Call("get_os_count", c, None, None, 0, 0)
    /\ filtered_manifests' = get_filtered_os_manifests(CACHED_MANIFEST, c)
    /\ response' = get_os_count(CACHED_MANIFEST, c)
    /\ UNCHANGED server_vars

\* GET /os/
call_get_os(c, ascBy, descBy, size, page) ==
    /\ request = NoRequest
    /\ request' = Call("get_os", c, ascBy, descBy, size, page)
    /\ filtered_manifests' = get_filtered_os_manifests(CACHED_MANIFEST, c)
    /\ response' = get_os(CACHED_MANIFEST, c, ascBy, descBy, size, page)
    /\ UNCHANGED server_vars

\* One call of get_os_params or get_os_count on a store.
QueryNext ==
    \/ \E c \in ParamsCriteria : call_get_os_params(c)
    \/ \E c \in CountCriteria : call_get_os_count(c)

QuerySpec == QueryInit /\ [][QueryNext]_vars

\* One call of get_os on a store.
PageNext ==
    \E c \in OsCriteria, key \in SortKeys, size \in PageSizes,
       page \in 0..MaxPage :
       \/ call_get_os(c, key, None, size, page)
       \/ call_get_os(c, None, key, size, page)

PageSpec == QueryInit /\ [][PageNext]_vars

(***************************************************************************)
(* The cache and the archive                                               *)
(***************************************************************************)

\* The url that identifies the record of the file at path.
url_of(path) ==
    DOWNLOAD_URL \o <<"/">> \o join_path(relative_to(path, get_archive_path))

\* Number of records of list whose url is that of the file at path.
records_of(list, path) ==
    Cardinality({ i \in 1..Len(list) : list[i].url = url_of(path) })

\* The name and place of path yield a record whenever the file exists.
name_parses(path) ==
    get_os_manifest_from_path(path, None, (path :> 1)).kind = "OS"

\* The scan has finished and the observer has been attached; no event is
\* waiting and no dispatch is in progress.
Quiescent ==
    /\ OBSERVER.state # "new"
    /\ \A t \in Threads : pc[t] \notin {"set_flag", "walk", "parse", "observer"}
    /\ event_queue = <<>>
    /\ handler = [ n |-> 1, step |-> "dispatch" ]

\* C1: at quiescence the store holds exactly one record for each file of
\* the archive whose name parses and none for any other path.
C1_CacheConsistentAtQuiescence ==
    Quiescent =>
        \A p \in Paths :
            records_of(CACHED_MANIFEST, p) =
                IF p \in DOMAIN files /\ name_parses(p) THEN 1 ELSE 0

\* C2: no request reads an element of the store before the scan has
\* appended every file and the observer has been attached.
C2_InitGate ==
    \A t \in Threads : it[t] > 0 => OBSERVER.state # "new"

\* C3: the directory walk runs at most once per process.
C3_ScanAtMostOnce == walks <= 1

\* C4: when the watcher has processed the deletion event of a removed file
\* that had a record, the store holds no record for the file and the
\* unfiltered count is one lower.
C4_DeletionReflected ==
    [][ ( /\ on_deleted
          /\ OBSERVER.handlers = 1
          /\ event.src_path \notin DOMAIN files
          /\ records_of(CACHED_MANIFEST, event.src_path) = 1 )
        => ( /\ records_of(CACHED_MANIFEST', event.src_path) = 0
             /\ Len(CACHED_MANIFEST') = Len(CACHED_MANIFEST) - 1 ) ]_vars

\* C5: when a rename whose source and destination names both parse has
\* been fully processed, the store holds a record for the destination and
\* no record with the url of the source.
C5_RenameRemovesAllByUrl ==
    [][ ( /\ on_moved_src
          /\ handler.n = OBSERVER.handlers
          /\ OBSERVER'.state = OBSERVER.state
          /\ name_parses(event.src_path)
          /\ name_parses(event.dest_path) )
        => ( /\ records_of(CACHED_MANIFEST', event.dest_path) >= 1
             /\ records_of(CACHED_MANIFEST', event.src_path) = 0 ) ]_vars

(***************************************************************************)
(* The filter                                                              *)
(***************************************************************************)

Range(list) == { list[i] : i \in 1..Len(list) }

\* An allow-list that is given and not empty.
given(list) == list # NoneList /\ list # <<>>

\* The facet constraints as the specification states them.
facets_admit(R, C) ==
    /\ given(C.variants) => R.variant \in Range(C.variants)
    /\ given(C.names) => R.name \in Range(C.names)
    /\ given(C.versions) => R.version \in Range(C.versions)
    /\ given(C.disketteSizes) => R.disketteSize \in Range(C.disketteSizes)
    /\ given(C.floppySizes) => R.floppySize \in Range(C.floppySizes)
    /\ given(C.archs) => Range(R.arch) \cap Range(C.archs) # {}
    /\ given(C.tags) => Range(R.tags) \cap Range(C.tags) # {}

\* The strings of a record that the search looks at.
searched(R) ==
    { R.variant, R.name, R.version } \cup ({ R.disketteSize } \ { None })
        \cup ({ R.floppySize } \ { None }) \cup Range(R.arch) \cup Range(R.tags)

\* The lowercased search string is a substring of a searched string as it
\* stands in the record.
search_admits_verbatim(R, C) ==
    C.search # None => \E x \in searched(R) : str_in(lower(C.search), x)

\* The lowercased search string is a substring of a lowercased searched
\* string.
search_admits_folded(R, C) ==
    C.search # None => \E x \in searched(R) : str_in(lower(C.search), lower(x))

FilterCall == request.endpoint \in { "get_os_count", "get_os" }

\* C6 as stated: a record is yielded iff it satisfies every given facet and
\* the lowercased search string is a substring of one of its searched
\* fields.
C6_FilterMembershipVerbatim ==
    FilterCall =>
        \A R \in Range(CACHED_MANIFEST) :
            R \in Range(filtered_manifests)
                <=> facets_admit(R, request.criteria)
                      /\ search_admits_verbatim(R, request.criteria)

\* C6 amended: a record is yielded iff it satisfies every given facet and
\* the lowercased search string is a substring of one of its lowercased
\* searched fields; nothing else is yielded.
C6_FilterMembership ==
    FilterCall =>
        /\ Range(filtered_manifests) \subseteq Range(CACHED_MANIFEST)
        /\ \A R \in Range(CACHED_MANIFEST) :
              R \in Range(filtered_manifests)
                  <=> facets_admit(R, request.criteria)
                        /\ search_admits_folded(R, request.criteria)

\* A search for "dos" kept some records and dropped others: the kept ones
\* match only through the case folding of "DOS" or "Dos".
C6_Witness ==
    /\ FilterCall
    /\ request.criteria.search = S_dos
    /\ filtered_manifests # <<>>
    /\ Len(filtered_manifests) < Len(CACHED_MANIFEST)

(***************************************************************************)
(* Facet parameters                                                        *)
(***************************************************************************)

ParamsCall == request.endpoint = "get_os_params"

\* C7: with variants = ["DOS"] and no other allow-list, names are exactly
\* the distinct names of the records whose variant is "DOS".
C7_NamesNarrowedByVariant ==
    ( /\ ParamsCall
      /\ request.criteria = [NoFilter EXCEPT !.variants = <<S_DOS>>] )
    => /\ Range(response.body.names) =
              { R.name : R \in { X \in Range(CACHED_MANIFEST) :
                                     X.variant = S_DOS } }
       /\ Len(response.body.names) = Cardinality(Range(response.body.names))

\* C8: with no filters, archs is the set of the individual architecture
\* codes of the records; and an archs allow-list admits a record when the
\* record's architectures have a member in common with it.
C8_ArchsAreIndividualValues ==
    /\ ( ParamsCall /\ request.criteria = NoFilter )
       => Range(response.body.archs) =
              UNION { Range(R.arch) : R \in Range(CACHED_MANIFEST) }
    /\ ( FilterCall /\ request.criteria.archs = <<S_arm64>>
                    /\ active(request.criteria) = 1
                    /\ request.criteria.search = None )
       => \A R \in Range(CACHED_MANIFEST) :
              R \in Range(filtered_manifests) <=> S_arm64 \in Range(R.arch)

\* c with the allow-list of facet i and of every later facet taken away.
earlier_only(c, i) ==
    [ k \in DOMAIN c |->
        IF \E j \in i..Len(Facets) : Facets[j] = k THEN NoneList ELSE c[k] ]

\* C9: the list returned for a facet depends on the store and on the
\* allow-lists of the facets before it only: it is the list returned by
\* the call that gives neither the facet's own allow-list nor a later one,
\* so two calls that agree on the earlier allow-lists return the same list.
C9_FacetPrecedence ==
    ParamsCall =>
        \A i \in 1..Len(Facets) :
            get_os_params(CACHED_MANIFEST,
                          earlier_only(request.criteria, i))[Facets[i]]
                = response.body[Facets[i]]

\* variants = ["DOS"] was given and the variants returned still hold
\* another variant: the facet's own allow-list did not narrow its list.
C9_Witness ==
    /\ ParamsCall
    /\ request.criteria.variants = <<S_DOS>>
    /\ \E v \in Range(response.body.variants) : v # S_DOS

(***************************************************************************)
(* Pagination                                                              *)
(***************************************************************************)

RECURSIVE pages_concat(_, _, _, _, _, _)
pages_concat(all, c, ascBy, descBy, size, n) ==
    IF n = 0 THEN <<>>
    ELSE pages_concat(all, c, ascBy, descBy, size, n - 1)
             \o get_os(all, c, ascBy, descBy, size, n - 1).body

\* C10: get_os never fails; a page has at most size records; the pages
\* 0 .. ceil(count/size)-1 concatenated are the whole sorted filtered list,
\* which holds every filtered record once; a page beyond them is empty.
C10_PaginationPartitions ==
    request.endpoint = "get_os" =>
        LET c     == request.criteria
            size  == request.size
            count == get_os_count(CACHED_MANIFEST, c).body
            last  == (count + size - 1) \div size
            whole == get_os(CACHED_MANIFEST, c, request.ascBy,
                            request.descBy, count + 1, 0)
            pages == pages_concat(CACHED_MANIFEST, c, request.ascBy,
                                  request.descBy, size, last)
        IN  /\ response.status = "ok"
            /\ Len(response.body) <= size
            /\ whole.status = "ok"
            /\ pages = whole.body
            /\ Len(whole.body) = count
            /\ \A R \in Range(filtered_manifests) :
                   Cardinality({ i \in 1..Len(whole.body) : whole.body[i] = R })
                     = Cardinality({ i \in 1..Len(filtered_manifests) :
                                         filtered_manifests[i] = R })
            /\ response.body =
                   SubSeq(whole.body, size * request.page + 1,
                          Min(size * (request.page + 1), count))
            /\ request.page >= last => response.body = <<>>

\* C10 for the sort keys under which sorted() cannot meet a None.
C10_PaginationWithoutNoneKeys ==
    ( request.endpoint = "get_os"
      /\ sort_key_of(request.ascBy, request.descBy) \notin EnumKeys )
    => C10_PaginationPartitions

(***************************************************************************)
(* Sorting                                                                 *)
(***************************************************************************)

PageCall == request.endpoint = "get_os"

\* s is a run of decimal digits.
is_number(s) ==
    /\ s # <<>>
    /\ \A i \in 1..Len(s) : ord(s[i]) >= ord("0") /\ ord(s[i]) <= ord("9")

\* The numeric value of a run of decimal digits.
RECURSIVE number(_)
number(s) ==
    IF s = <<>> THEN 0
    ELSE 10 * number(SubSeq(s, 1, Len(s) - 1))
             + (ord(s[Len(s)]) - ord("0"))

\* C11: in a page sorted with ascBy = "version", a record whose version is
\* a number never stands behind a record whose version is a greater number
\* ("9" is placed before "10").
C11_NaturalVersionOrder ==
    ( PageCall /\ request.ascBy = K_version /\ response.status = "ok" )
    => \A i, j \in 1..Len(response.body) :
           ( /\ i < j
             /\ is_number(response.body[i].version)
             /\ is_number(response.body[j].version) )
           => number(response.body[i].version)
                  <= number(response.body[j].version)

\* The string value of a field, a missing value being the empty string.
string_value(os, sort_key) ==
    IF os_get(os, sort_key) = None THEN <<>> ELSE os_get(os, sort_key)

string_goes_before(x, y, sort_key, reverse) ==
    IF reverse
    THEN str_lt(string_value(y, sort_key), string_value(x, sort_key))
    ELSE str_lt(string_value(x, sort_key), string_value(y, sort_key))

RECURSIVE string_insert(_, _, _, _)
string_insert(sorted_items, x, sort_key, reverse) ==
    IF sorted_items = <<>> THEN <<x>>
    ELSE LET last == sorted_items[Len(sorted_items)]
         IN  IF string_goes_before(x, last, sort_key, reverse)
             THEN Append(string_insert(SubSeq(sorted_items, 1,
                                              Len(sorted_items) - 1),
                                       x, sort_key, reverse), last)
             ELSE Append(sorted_items, x)

\* The total stable sort by string value: equal keys keep their order.
RECURSIVE string_sorted(_, _, _)
string_sorted(items, sort_key, reverse) ==
    IF items = <<>> THEN <<>>
    ELSE string_insert(string_sorted(SubSeq(items, 1, Len(items) - 1),
                                     sort_key, reverse),
                       items[Len(items)], sort_key, reverse)

\* C12: get_os never raises, whatever the sort key; and for a sort key
\* whose field holds a string or nothing (or that names no field) the page
\* is the page of the filtered records in the total stable order of their
\* string values, a missing value counting as the empty string.
C12_TotalStableSort ==
    ( PageCall /\ sort_key_of(request.ascBy, request.descBy) # None )
    => /\ response.status = "ok"
       /\ sort_key_of(request.ascBy, request.descBy)
              \notin (ListKeys \cup { K_size })
          => response.body =
                 islice(string_sorted(filtered_manifests,
                                      sort_key_of(request.ascBy,
                                                  request.descBy),
                                      ~not_str(request.descBy)),
                        request.size * request.page,
                        request.size * (request.page + 1))

\* C12 for the sort keys under which sorted() cannot meet a None.
C12_SortWithoutNoneKeys ==
    ( PageCall
      /\ sort_key_of(request.ascBy, request.descBy) \notin EnumKeys )
    => C12_TotalStableSort

(***************************************************************************)
(* Paths that yield no record                                              *)
(***************************************************************************)

\* What get_os_manifest_from_path makes of the event in the handler step
\* about to run.
handled ==
    IF event.type = "moved" /\ handler.step = "moved_src"
    THEN get_os_manifest_from_path(event.src_path, event.dest_path, files)
    ELSE IF event.type = "moved"
    THEN get_os_manifest_from_path(event.dest_path, None, files)
    ELSE get_os_manifest_from_path(event.src_path, None, files)

\* C13: a handler step for a create, delete or rename event whose path
\* yields no record raises nothing, leaves the store as it was, and leaves
\* the watcher running.
C13_UnparsableIgnored ==
    [][ ( /\ on_created \/ on_deleted \/ on_moved_dest \/ on_moved_src
          /\ ~truthy(handled) )
        => ( /\ ~raised(handled)
             /\ CACHED_MANIFEST' = CACHED_MANIFEST
             /\ OBSERVER'.state = "running" ) ]_vars

\* C14: no file stops the scan: after the scan has looked at a file it goes
\* on with the walk, to index the remaining files and attach the watcher,
\* and a file that yields no record changes nothing in the store.
C14_ScanSurvivesParseFailure ==
    [][ \A t \in Threads :
          generate_parse(t)
          => /\ pc'[t] = "walk"
             /\ walk'[t] = walk[t] + 1
             /\ ~truthy(get_os_manifest_from_path(rglob[walk[t]], None, files))
                => CACHED_MANIFEST' = CACHED_MANIFEST ]_vars

(***************************************************************************)
(* The lists of get_os_params                                              *)
(***************************************************************************)

\* C15: each facet computation of one get_os_params call ranges over the
\* whole store: without allow-lists, every list holds the values of all the
\* records, whatever the computations before it have consumed.
C15_AllIsRestartable ==
    ( ParamsCall /\ request.criteria = NoFilter )
    => LET store == Range(CACHED_MANIFEST)
           body  == response.body
       IN  /\ Range(body.variants) = { R.variant : R \in store }
           /\ Range(body.names) = { R.name : R \in store }
           /\ Range(body.versions) = { R.version : R \in store }
           /\ Range(body.disketteSizes)
                  = { R.disketteSize : R \in store } \ { None }
           /\ Range(body.floppySizes)
                  = { R.floppySize : R \in store } \ { None }
           /\ store # {} => body.archs # <<>>
           /\ Range(body.tags) = UNION { Range(R.tags) : R \in store }

\* Natural order on the facet values of the stores: two numbers by their
\* value, any other two strings by code point (none of them holds a run of
\* digits next to different text).
natural_le(a, b) ==
    IF is_number(a) /\ is_number(b) THEN number(a) <= number(b)
    ELSE a = b \/ str_lt(a, b)

ascending(list) ==
    \A i, j \in 1..Len(list) : i < j => natural_le(list[i], list[j])

\* C16: each of the seven lists returned by get_os_params is in ascending
\* natural order, whatever the order of the records in the store.
C16_ParamsAscending ==
    ParamsCall => \A i \in 1..Len(Facets) : ascending(response.body[Facets[i]])

\* C17: no list returned by get_os_params holds a value twice, and the
\* disketteSizes and floppySizes lists hold no None.
C17_ParamsDistinctNoNone ==
    ParamsCall =>
        /\ \A k \in 1..Len(Facets) :
              \A i, j \in 1..Len(response.body[Facets[k]]) :
                  i < j => response.body[Facets[k]][i]
                               # response.body[Facets[k]][j]
        /\ None \notin Range(response.body.disketteSizes)
        /\ None \notin Range(response.body.floppySizes)

\* The store holds the same record twice, of a file without disk and floppy
\* size, and the call returned fewer variants than the store has records.
C17_Witness ==
    /\ ParamsCall
    /\ Len(CACHED_MANIFEST) >= 2
    /\ CACHED_MANIFEST[1] = CACHED_MANIFEST[2]
    /\ CACHED_MANIFEST[1].disketteSize = None
    /\ CACHED_MANIFEST[1].floppySize = None
    /\ response.body.variants # <<>>
    /\ Len(response.body.variants) < Len(CACHED_MANIFEST)

(***************************************************************************)
(* Filter algebra                                                          *)
(***************************************************************************)

\* C18: filtering the result of a filter again with the same criteria
\* yields the same records in the same order.
C18_FilterIdempotent ==
    FilterCall =>
        get_filtered_os_manifests(filtered_manifests, request.criteria)
            = filtered_manifests

\* A filter by variant kept some records of the store and dropped others.
C18_Witness ==
    /\ FilterCall
    /\ request.criteria.variants = <<S_DOS>>
    /\ Len(filtered_manifests) >= 2
    /\ Len(filtered_manifests) < Len(CACHED_MANIFEST)

(***************************************************************************)
(* The watcher                                                             *)
(***************************************************************************)

\* C19: the observer gets at most one handler scheduled, and once it has
\* been started no scan is walking the archive and appending records.
C19_WatcherOnceAfterScan ==
    /\ OBSERVER.handlers <= 1
    /\ OBSERVER.state # "new"
       => \A t \in Threads : pc[t] \notin { "walk", "parse" }

\* C20: for a rename whose destination parses, the first half of on_moved
\* appends the destination record and removes nothing, and the second half
\* runs with the destination record in the store and leaves it there: a
\* store that held the source record before on_moved holds the source
\* record, the destination record or both after each half, never neither.
C20_RenameInsertsBeforeRemoving ==
    [][ /\ ( on_moved_dest /\ name_parses(event.dest_path) )
           => /\ records_of(CACHED_MANIFEST', event.src_path)
                     = records_of(CACHED_MANIFEST, event.src_path)
              /\ ~raised(handled)
                 => records_of(CACHED_MANIFEST', event.dest_path)
                        = records_of(CACHED_MANIFEST, event.dest_path) + 1
        /\ ( on_moved_src /\ name_parses(event.dest_path) )
           => /\ records_of(CACHED_MANIFEST, event.dest_path) >= 1
              /\ records_of(CACHED_MANIFEST', event.dest_path)
                     = records_of(CACHED_MANIFEST, event.dest_path)
        /\ ( /\ on_moved_dest \/ on_moved_src
             /\ name_parses(event.dest_path)
             /\ records_of(CACHED_MANIFEST, event.src_path)
                    + records_of(CACHED_MANIFEST, event.dest_path) >= 1 )
           => records_of(CACHED_MANIFEST', event.src_path)
                  + records_of(CACHED_MANIFEST', event.dest_path) >= 1
      ]_vars

\* Between the two halves of on_moved: the store holds both the source
\* record and the destination record of the rename.
C20_Witness ==
    /\ OBSERVER.state = "running"
    /\ event_queue # <<>>
    /\ event.type = "moved"
    /\ handler.step = "moved_src"
    /\ name_parses(event.dest_path)
    /\ records_of(CACHED_MANIFEST, event.src_path) >= 1
    /\ records_of(CACHED_MANIFEST, event.dest_path) >= 1

\* C21: a delete event, or the source half of a rename event, for a path
\* that parses and has no record in the store raises nothing and leaves
\* the store as it was, record for record.
C21_RemoveAbsentIsNoOp ==
    [][ ( /\ on_deleted \/ on_moved_src
          /\ name_parses(event.src_path)
          /\ records_of(CACHED_MANIFEST, event.src_path) = 0 )
        => ( /\ ~raised(handled)
             /\ CACHED_MANIFEST' = CACHED_MANIFEST ) ]_vars

\* C21 for the steps in which the file that the handler stats exists.
C21_RemoveAbsentWithFilePresent ==
    [][ ( /\ on_deleted \/ on_moved_src
          /\ name_parses(event.src_path)
          /\ records_of(CACHED_MANIFEST, event.src_path) = 0
          /\ ~raised(handled) )
        => CACHED_MANIFEST' = CACHED_MANIFEST ]_vars

(***************************************************************************)
(* Readers and the watcher                                                 *)
(***************************************************************************)

\* Occurrences of record R in list behind position n: what an iterator
\* standing at n is still going to yield of R.
count_ahead(list, n, R) ==
    Cardinality({ i \in (n + 1)..Len(list) : list[i] = R })

\* C22: a step of the watcher does not disturb a request that is iterating
\* the store: of every record that the step neither adds nor removes, the
\* iterator is still going to yield what it was going to yield before, so
\* the record is neither skipped nor returned twice.
C22_ReadersUndisturbed ==
    [][ ( on_created \/ on_deleted \/ on_moved_dest \/ on_moved_src )
        => \A t \in Threads :
               pc[t] = "iterate"
               => \A R \in Range(CACHED_MANIFEST) :
                      count_ahead(CACHED_MANIFEST', 0, R)
                          = count_ahead(CACHED_MANIFEST, 0, R)
                      => count_ahead(CACHED_MANIFEST', it[t], R)
                             = count_ahead(CACHED_MANIFEST, it[t], R) ]_vars

\* C22 for the steps of the watcher that only append.
C22_ReadersUndisturbedByAppends ==
    [][ ( on_created \/ on_moved_dest )
        => \A t \in Threads :
               pc[t] = "iterate"
               => \A R \in Range(CACHED_MANIFEST) :
                      count_ahead(CACHED_MANIFEST', 0, R)
                          = count_ahead(CACHED_MANIFEST, 0, R)
                      => count_ahead(CACHED_MANIFEST', it[t], R)
                             = count_ahead(CACHED_MANIFEST, it[t], R) ]_vars

(***************************************************************************)
(* Well-formed records                                                     *)
(***************************************************************************)

well_formed(R) ==
    /\ R.arch # <<>>
    /\ \A i \in 1..Len(R.arch) : R.arch[i] \in Arch
    /\ \/ R.disketteSize = None /\ R.floppySize = None
       \/ R.disketteSize \in DisketteSize /\ R.floppySize \in FloppySize

\* C23: every record in the store has a non-empty architecture list of
\* members of the architecture vocabulary, and a disketteSize and a
\* floppySize that are both absent or both present and in their
\* vocabularies.
C23_RecordsWellFormed ==
    \A i \in 1..Len(CACHED_MANIFEST) : well_formed(CACHED_MANIFEST[i])

\* The watcher has handled the event of a file named with sizes and two
\* architectures, and the store holds its record.
C23_Witness ==
    /\ event_queue = <<>>
    /\ \E i \in 1..Len(CACHED_MANIFEST) :
          /\ CACHED_MANIFEST[i].disketteSize # None
          /\ Len(CACHED_MANIFEST[i].arch) = 2

====
